---- MODULE Spec2Model ----
(***************************************************************************)
(* Model of the Move model builder (language/move-model/src/lib.rs):       *)
(* run_model_builder_with_compilation_flags, the dependency closure        *)
(* collect_related_modules_recursive, add_move_lang_errors,                *)
(* run_spec_checker and run_bytecode_model_builder.                        *)
(*                                                                         *)
(* Identifiers (module names, function names, named addresses) are         *)
(* interned symbols and are modelled as small naturals; file names are     *)
(* naturals too, so that `files.keys().sorted()` is the numeric order.     *)
(* Option<T> is a sequence of length 0 (None) or 1 (Some).                 *)
(* UniqueMap<K, V> / BTreeMap<K, V> is a function with domain the keys.    *)
(***************************************************************************)
EXTENDS Integers, Sequences, FiniteSets, TLC

\* ------------------------------------------------------------------------
\* Bounds of the model
NumModules == 3
MaxErrors == 2
MaxAddr == 1
MaxUnits == 3
MaxEdges == 3
MaxLocals == 2
MaxReturns == 2
MaxCode == 2
MaxFormatters == 2

\* AddressBytes::DEFAULT_ERROR_BYTES, the all-zero address
DEFAULT_ERROR_BYTES == 0

\* ------------------------------------------------------------------------
\* Generic helpers
None == <<>>
Some(x) == <<x>>

Range(s) == {s[i] : i \in 1..Len(s)}

Max(S) == CHOOSE x \in S : \A y \in S : y <= x

Min(S) == CHOOSE x \in S : \A y \in S : x <= y

RECURSIVE SortedSeq(_)
SortedSeq(S) == IF S = {} THEN <<>> ELSE <<Min(S)>> \o SortedSeq(S \ {Min(S)})

Perms(S) == {p \in [1..Cardinality(S) -> S] : \A i, j \in 1..Cardinality(S) : i # j => p[i] # p[j]}

Restrict(f, D) == [x \in D |-> f[x]]

\* ------------------------------------------------------------------------
\* Addresses and module identities of the expansion AST

AddressBytes == 0..MaxAddr

NamedAddr(n) == [tag |-> "Named", name |-> Some(n), bytes |-> None]

AnonymousAddr(b) == [tag |-> "Anonymous", name |-> None, bytes |-> Some(b)]

\* ModuleIdent_::new(address, name)
ModuleIdent_new(address, name) == [address |-> address, module |-> name]

\* The module identities the front end draws from: module k has name k; the
\* modules cycle through a named address, the anonymous address 0 and the
\* anonymous address 1.
AddrNames == {1}

AddressOfIdx(k) ==
    IF k % 3 = 1 THEN NamedAddr(1)
    ELSE IF k % 3 = 2 THEN AnonymousAddr(0)
    ELSE AnonymousAddr(1)

Ident(k) == ModuleIdent_new(AddressOfIdx(k), k)

ModuleIdents == {Ident(k) : k \in 1..NumModules}

IdxOf(mident) == mident.module

\* The iteration order of a BTreeSet / UniqueMap of module identities.
KeyOrder == [k \in 1..NumModules |-> Ident(k)]

\* The elements of the set S in the order ord lists them.
InOrder(S, ord) == SelectSeq(ord, LAMBDA m : m \in S)

\* ------------------------------------------------------------------------
\* collect_related_modules_recursive (lib.rs 193-211).  The accumulator st
\* carries the visited set, the list of modules expanded so far (those that
\* passed the visited check) and whether modules.get(..).unwrap() panicked.

NewVisit == [visited |-> {}, expanded |-> <<>>, panicked |-> FALSE]

RECURSIVE collect_stale(_, _, _, _)
collect_stale(mident, modules, st, ord) ==
    IF st.panicked \/ mident \in st.visited THEN st
    ELSE IF mident \notin DOMAIN modules THEN [st EXCEPT !.panicked = TRUE]
    ELSE LET deps == InOrder(DOMAIN modules[mident].immediate_neighbors, ord)
             st1 == [st EXCEPT !.visited = @ \cup {mident},
                               !.expanded = Append(@, mident)]
             \* every neighbor is followed with the visited set as it was
             \* before the loop
             sub == [i \in 1..Len(deps) |-> collect_stale(deps[i], modules, st1, ord)]
             RECURSIVE join(_)
             join(i) == IF i = 0 THEN st1
                        ELSE LET a == join(i - 1)
                             IN [visited |-> a.visited \cup sub[i].visited,
                                 expanded |-> a.expanded \o
                                     SubSeq(sub[i].expanded, Len(st1.expanded) + 1,
                                            Len(sub[i].expanded)),
                                 panicked |-> a.panicked \/ sub[i].panicked]
         IN join(Len(deps))

RECURSIVE collect_first_only(_, _, _, _)
collect_first_only(mident, modules, st, ord) ==
    IF st.panicked \/ mident \in st.visited THEN st
    ELSE IF mident \notin DOMAIN modules THEN [st EXCEPT !.panicked = TRUE]
    ELSE LET deps == InOrder(DOMAIN modules[mident].immediate_neighbors, ord)
             st1 == [st EXCEPT !.visited = @ \cup {mident},
                               !.expanded = Append(@, mident)]
         IN IF deps = <<>> THEN st1
            ELSE collect_first_only(Head(deps), modules, st1, ord)

RECURSIVE collect_related_modules_recursive(_, _, _, _)
RECURSIVE follow_deps(_, _, _, _)
collect_related_modules_recursive(mident, modules, st, ord) ==
    IF st.panicked THEN st
    ELSE IF mident \in st.visited THEN st
    ELSE IF mident \notin DOMAIN modules THEN [st EXCEPT !.panicked = TRUE]
    ELSE LET deps == InOrder(DOMAIN modules[mident].immediate_neighbors, ord)
             st1 == [st EXCEPT !.visited = @ \cup {mident},
                               !.expanded = Append(@, mident)]
         IN follow_deps(deps, modules, st1, ord)

\* for next_mident in deps { collect_related_modules_recursive(..) }
follow_deps(deps, modules, st, ord) ==
    IF deps = <<>> THEN st
    ELSE follow_deps(Tail(deps), modules,
                     collect_related_modules_recursive(Head(deps), modules, st, ord), ord)

\* ------------------------------------------------------------------------
\* Closure roots and filtering (lib.rs 122-168)

\* lib.rs 124-129: for (mident, mdef) in expansion_ast.modules, in key order
RECURSIVE visit_modules(_, _, _, _, _)
visit_modules(keys, modules, dep_sources, st, ord) ==
    IF keys = <<>> THEN st
    ELSE LET mident == Head(keys)
             src_file == modules[mident].loc
             st1 == IF src_file \notin dep_sources
                    THEN collect_related_modules_recursive(mident, modules, st, ord)
                    ELSE st
         IN visit_modules(Tail(keys), modules, dep_sources, st1, ord)

\* lib.rs 130-141: for sdef in expansion_ast.scripts.values(), in key order
RECURSIVE visit_scripts(_, _, _, _, _, _)
visit_scripts(keys, scripts, modules, dep_sources, st, ord) ==
    IF keys = <<>> THEN st
    ELSE LET sdef == scripts[Head(keys)]
             src_file == sdef.loc
             st1 == IF src_file \notin dep_sources
                    THEN follow_deps(InOrder(DOMAIN sdef.immediate_neighbors, ord),
                                     modules, st, ord)
                    ELSE st
         IN visit_scripts(Tail(keys), scripts, modules, dep_sources, st1, ord)

\* lib.rs 123-141: the visited set of the module/script closure; kord is
\* the key order of expansion_ast.modules, ord the order of a BTreeSet of
\* module identities
module_closure(east, dep_sources, kord, ord) ==
    LET st1 == visit_modules(InOrder(DOMAIN east.modules, kord), east.modules,
                             dep_sources, NewVisit, ord)
    IN visit_scripts(SortedSeq(DOMAIN east.scripts), east.scripts, east.modules,
                     dep_sources, st1, ord)

\* lib.rs 142-147
named_addresses_of(visited) ==
    {m.address.name[1] : m \in {v \in visited : v.address.tag = "Named"}}

\* lib.rs 150-168: filter_map over addresses and modules; scripts are kept
filter_program_keep_all(east, visited, visited_addresses) ==
    [addresses |-> east.addresses,
     modules |-> [m \in DOMAIN east.modules |->
                     [east.modules[m] EXCEPT !.is_source_module = TRUE]],
     scripts |-> east.scripts]

filter_program(east, visited, visited_addresses) ==
    [addresses |-> Restrict(east.addresses, DOMAIN east.addresses \cap visited_addresses),
     modules |-> [m \in DOMAIN east.modules \cap visited |->
                     [east.modules[m] EXCEPT !.is_source_module = TRUE]],
     scripts |-> east.scripts]

\* ------------------------------------------------------------------------
\* GlobalEnv: source-file table, documentation, diagnostics, module list

GlobalEnv_new == [source_files |-> <<>>, documentation |-> {}, diags |-> <<>>,
                  module_data |-> <<>>]

\* env.add_source(fname, fsrc, is_dep): file ids are positions in the table
add_source(env, fname, is_dep) ==
    [env EXCEPT !.source_files = Append(@, [name |-> fname, is_dep |-> is_dep])]

\* env.get_file_id(fname): Option<FileId>
get_file_id(env, fname) ==
    LET ids == {i \in 1..Len(env.source_files) : env.source_files[i].name = fname}
    IN IF ids = {} THEN None ELSE Some(Min(ids))

\* env.to_loc(&loc): the location with the file id of the file name; the
\* unknown location (file id 0) when the file is not in the table
to_loc(env, loc) ==
    LET id == get_file_id(env, loc)
    IN [file_id |-> IF id = None THEN 0 ELSE id[1]]

add_diag(env, diag) == [env EXCEPT !.diags = Append(@, diag)]

add_documentation(env, file_id, documentation) ==
    [env EXCEPT !.documentation = @ \cup {<<file_id, documentation>>}]

\* lib.rs 76-79 / 92-95: for fname in files.keys().sorted()
RECURSIVE add_sources_drop_last(_, _, _)
add_sources_drop_last(env, fnames, deps) ==
    IF Len(fnames) <= 1 THEN env
    ELSE add_sources_drop_last(add_source(env, Head(fnames), Head(fnames) \in deps),
                               Tail(fnames), deps)

RECURSIVE add_sources(_, _, _)
add_sources(env, fnames, deps) ==
    IF fnames = <<>> THEN env
    ELSE add_sources(add_source(env, Head(fnames), Head(fnames) \in deps),
                     Tail(fnames), deps)

\* lib.rs 98-101: for (fname, documentation) in comment_map; the result
\* carries whether get_file_id(..).expect(..) panicked
RECURSIVE add_comments(_, _, _)
add_comments(envp, fnames, comment_map) ==
    IF fnames = <<>> \/ envp.panicked THEN envp
    ELSE LET id == get_file_id(envp.env, Head(fnames))
         IN IF id = None THEN [envp EXCEPT !.panicked = TRUE]
            ELSE add_comments([envp EXCEPT !.env =
                                  add_documentation(@, id[1], comment_map[Head(fnames)])],
                              Tail(fnames), comment_map)

\* ------------------------------------------------------------------------
\* add_move_lang_errors (lib.rs 254-266).  An error is its list of labels
\* (location file, message); the first is the primary label.

mk_label(env, err) == [file_id |-> to_loc(env, err.loc).file_id, message |-> err.msg]

Diagnostic_new_error(primary, secondary) ==
    [severity |-> "Error", primary |-> primary, secondary |-> secondary]

RECURSIVE add_errors_first_only(_, _)
add_errors_first_only(envp, errors) ==
    IF errors = <<>> \/ envp.panicked THEN envp
    ELSE LET labels == Head(errors)
         IN IF labels = <<>> THEN [envp EXCEPT !.panicked = TRUE]
            ELSE [envp EXCEPT !.env = add_diag(@,
                      Diagnostic_new_error(mk_label(envp.env, Head(labels)),
                          [i \in 1..(Len(labels) - 1) |-> mk_label(envp.env, labels[i + 1])]))]

\* the diagnostic of an error takes the place of the diagnostics stored
RECURSIVE add_errors_keep_last(_, _)
add_errors_keep_last(envp, errors) ==
    IF errors = <<>> \/ envp.panicked THEN envp
    ELSE LET labels == Head(errors)
         IN IF labels = <<>> THEN [envp EXCEPT !.panicked = TRUE]
            ELSE LET diag == Diagnostic_new_error(mk_label(envp.env, Head(labels)),
                                 [i \in 1..(Len(labels) - 1) |->
                                     mk_label(envp.env, labels[i + 1])])
                 IN add_errors_keep_last([envp EXCEPT !.env.diags = <<diag>>],
                                         Tail(errors))

RECURSIVE add_move_lang_errors(_, _)
add_move_lang_errors(envp, errors) ==
    IF errors = <<>> \/ envp.panicked THEN envp
    ELSE LET labels == Head(errors)
         IN IF labels = <<>>
            THEN \* labels.remove(0) on an empty vector
                 [envp EXCEPT !.panicked = TRUE]
            ELSE LET primary == Head(labels)
                     rest == Tail(labels)
                     diag == Diagnostic_new_error(mk_label(envp.env, primary),
                                 [i \in 1..Len(rest) |-> mk_label(envp.env, rest[i])])
                 IN add_move_lang_errors([envp EXCEPT !.env = add_diag(@, diag)],
                                         Tail(errors))

\* ------------------------------------------------------------------------
\* run_spec_checker (lib.rs 269-387)

\* lib.rs 270-274: the named addresses that have a value
named_address_mapping_of(eprog) ==
    LET assigned == {n \in DOMAIN eprog.addresses : eprog.addresses[n] # None}
    IN [n \in assigned |-> eprog.addresses[n][1]]

\* lib.rs 332-356: the pseudo module identity and definition of a script
script_to_module_with_struct(sdef) ==
    [ident |-> ModuleIdent_new(AnonymousAddr(DEFAULT_ERROR_BYTES), sdef.function_name),
     expanded_module |->
        [attributes |-> sdef.attributes,
         loc |-> sdef.loc,
         immediate_neighbors |-> sdef.immediate_neighbors,
         is_source_module |-> TRUE,
         friends |-> <<>>,
         structs |-> (sdef.function_name :> "struct"),
         constants |-> <<>>,
         functions |-> (sdef.function_name :> sdef.function),
         specs |-> sdef.specs]]

script_to_module(sdef) ==
    [ident |-> ModuleIdent_new(AnonymousAddr(DEFAULT_ERROR_BYTES), sdef.function_name),
     expanded_module |->
        [attributes |-> sdef.attributes,
         loc |-> sdef.loc,
         immediate_neighbors |-> sdef.immediate_neighbors,
         is_source_module |-> TRUE,
         friends |-> <<>>,
         structs |-> <<>>,
         constants |-> sdef.constants,
         functions |-> (sdef.function_name :> sdef.function),
         specs |-> sdef.specs]]

Remove(f, k) == Restrict(f, DOMAIN f \ {k})

\* lib.rs 278-361: units.into_iter().flat_map(..).  acc carries the merged
\* tuples, the expanded program with the matched definitions removed, and
\* the units for which a warning was logged.  Each tuple remembers the
\* position of its unit in the input sequence (unit).
RECURSIVE merge_units(_, _, _)
merge_units(units, i, acc) ==
    IF i > Len(units) THEN acc
    ELSE LET u == units[i]
         IN IF u.kind = "Module"
            THEN LET module_ident == u.ident[1]
                 IN IF module_ident \in DOMAIN acc.eprog.modules
                    THEN merge_units(units, i + 1,
                           [items |-> Append(acc.items,
                               [ident |-> module_ident,
                                expanded_module |-> acc.eprog.modules[module_ident],
                                module |-> u.module,
                                function_infos |-> u.function_infos,
                                from_script |-> FALSE,
                                unit |-> i]),
                            eprog |-> [acc.eprog EXCEPT !.modules = Remove(@, module_ident)],
                            warned |-> acc.warned])
                    ELSE merge_units(units, i + 1, [acc EXCEPT !.warned = Append(@, i)])
            ELSE LET key == u.key[1]
                 IN IF key \in DOMAIN acc.eprog.scripts
                    THEN LET sm == script_to_module(acc.eprog.scripts[key])
                             function_name == acc.eprog.scripts[key].function_name
                         IN merge_units(units, i + 1,
                              [items |-> Append(acc.items,
                                  [ident |-> sm.ident,
                                   expanded_module |-> sm.expanded_module,
                                   \* script.into_module()
                                   module |-> u.module,
                                   function_infos |-> {function_name},
                                   from_script |-> TRUE,
                                   unit |-> i]),
                               eprog |-> [acc.eprog EXCEPT !.scripts = Remove(@, key)],
                               warned |-> acc.warned])
                    ELSE merge_units(units, i + 1, [acc EXCEPT !.warned = Append(@, i)])

\* builder.resolve_address(&loc, &address): an anonymous address is its
\* bytes, a named address is looked up in the named-address table
resolve_address(mapping, address) ==
    IF address.tag = "Anonymous" THEN address.bytes[1]
    ELSE IF address.name[1] \in DOMAIN mapping THEN mapping[address.name[1]]
    ELSE DEFAULT_ERROR_BYTES

\* ModuleName::from_address_bytes_and_name(addr_bytes, symbol)
ModuleName_from(addr_bytes, symbol) == [addr |-> addr_bytes, name |-> symbol]

\* ModuleBuilder::translate: adds the ModuleData of the merged module to the
\* environment's module list
translate(env, module_id, module_name, loc, item) ==
    [env EXCEPT !.module_data = Append(@,
        [name |-> module_name,
         id |-> module_id,
         loc |-> Some(loc),
         module |-> item.module,
         function_data |-> [f \in DOMAIN item.expanded_module.functions |->
                               [name |-> f, loc |-> Some(loc),
                                spec |-> item.expanded_module.specs]],
         struct_data |-> [t \in DOMAIN item.expanded_module.structs |->
                               [name |-> t, loc |-> Some(loc), spec |-> <<>>]],
         from_script |-> item.from_script])]

\* lib.rs 362-384: .enumerate() and the loop over the merged tuples
RECURSIVE translate_all_from_one(_, _, _, _)
translate_all_from_one(env, mapping, items, module_count) ==
    IF items = <<>> THEN env
    ELSE LET item == Head(items)
             loc == to_loc(env, item.expanded_module.loc)
             addr_bytes == resolve_address(mapping, item.ident.address)
             module_name == ModuleName_from(addr_bytes, item.ident.module)
         IN translate_all_from_one(
                translate(env, Len(items), module_name, loc, item),
                mapping, Tail(items), module_count + 1)

\* the identity of a module is the position of its unit in the input
RECURSIVE translate_all_unit_ids(_, _, _, _)
translate_all_unit_ids(env, mapping, items, module_count) ==
    IF items = <<>> THEN env
    ELSE LET item == Head(items)
             loc == to_loc(env, item.expanded_module.loc)
             addr_bytes == resolve_address(mapping, item.ident.address)
             module_name == ModuleName_from(addr_bytes, item.ident.module)
         IN translate_all_unit_ids(
                translate(env, item.unit - 1, module_name, loc, item),
                mapping, Tail(items), module_count + 1)

RECURSIVE translate_all(_, _, _, _)
translate_all(env, mapping, items, module_count) ==
    IF items = <<>> THEN env
    ELSE LET item == Head(items)
             loc == to_loc(env, item.expanded_module.loc)
             addr_bytes == resolve_address(mapping, item.ident.address)
             module_name == ModuleName_from(addr_bytes, item.ident.module)
             module_id == module_count
         IN translate_all(translate(env, module_id, module_name, loc, item),
                          mapping, Tail(items), module_count + 1)

\* a unit without definition aborts the merge: nothing is translated
run_spec_checker_abort_unmatched(env, units, eprog) ==
    LET merged == merge_units(units, 1, [items |-> <<>>, eprog |-> eprog, warned |-> <<>>])
    IN IF merged.warned # <<>>
       THEN [env |-> env, items |-> <<>>, warned |-> merged.warned]
       ELSE [env |-> translate_all(env, named_address_mapping_of(eprog), merged.items, 0),
             items |-> merged.items,
             warned |-> merged.warned]

run_spec_checker(env, units, eprog) ==
    LET named_address_mapping == named_address_mapping_of(eprog)
        merged == merge_units(units, 1, [items |-> <<>>, eprog |-> eprog, warned |-> <<>>])
    IN [env |-> translate_all(env, named_address_mapping, merged.items, 0),
        items |-> merged.items,
        warned |-> merged.warned]

\* ------------------------------------------------------------------------
\* run_bytecode_model_builder (lib.rs 216-252)

\* addr.to_string(): the hexadecimal digits of an address, most significant
\* first
RECURSIVE HexDigits(_)
HexDigits(n) == IF n < 16 THEN <<n>> ELSE Append(HexDigits(n \div 16), n % 16)

\* BigUint::from_str_radix(digits, 16)
RECURSIVE FromStrRadix16(_)
FromStrRadix16(ds) ==
    IF ds = <<>> THEN 0
    ELSE 16 * FromStrRadix16(SubSeq(ds, 1, Len(ds) - 1)) + ds[Len(ds)]

\* lib.rs 393-395
addr_to_big_uint(addr) == FromStrRadix16(HexDigits(addr))

\* FunctionData::stub(symbol, def_idx, handle_idx)
FunctionData_stub(symbol, def_idx) ==
    [name |-> symbol, def_idx |-> def_idx, loc |-> None, spec |-> None]

\* env.create_struct_data(&m, def_idx, symbol, Loc::default(), Spec::default())
create_struct_data(def_idx, symbol) ==
    [name |-> symbol, def_idx |-> def_idx, loc |-> None, spec |-> None]

\* the index tables are left empty
stub_module_data_no_idx(i, m) ==
    LET id == m.self_id[1]
        addr == addr_to_big_uint(id.address)
        module_name == ModuleName_from(addr, id.name)
        fidx == 1..Len(m.function_defs)
        sidx == 1..Len(m.struct_defs)
    IN [name |-> module_name,
        id |-> i,
        loc |-> None,
        module |-> m,
        function_data |-> [f \in Range(m.function_defs) |->
            FunctionData_stub(f, Max({j \in fidx : m.function_defs[j] = f}) - 1)],
        function_idx_to_id |-> <<>>,
        struct_data |-> [t \in Range(m.struct_defs) |->
            create_struct_data(Max({j \in sidx : m.struct_defs[j] = t}) - 1, t)],
        struct_idx_to_id |-> <<>>,
        from_script |-> FALSE]

\* lib.rs 221-249: the stub ModuleData of the module m at position i (from 0)
stub_module_data(i, m) ==
    LET id == m.self_id[1]
        addr == addr_to_big_uint(id.address)
        module_name == ModuleName_from(addr, id.name)
        fidx == 1..Len(m.function_defs)
        sidx == 1..Len(m.struct_defs)
    IN [name |-> module_name,
        id |-> i,
        loc |-> None,
        module |-> m,
        function_data |-> [f \in Range(m.function_defs) |->
            FunctionData_stub(f, Max({j \in fidx : m.function_defs[j] = f}) - 1)],
        function_idx_to_id |-> [j \in {k - 1 : k \in fidx} |-> m.function_defs[j + 1]],
        struct_data |-> [t \in Range(m.struct_defs) |->
            create_struct_data(Max({j \in sidx : m.struct_defs[j] = t}) - 1, t)],
        struct_idx_to_id |-> [j \in {k - 1 : k \in sidx} |-> m.struct_defs[j + 1]],
        from_script |-> FALSE]

\* lib.rs 219-251: for (i, m) in modules.into_iter().enumerate()
RECURSIVE push_stubs_front(_, _, _)
push_stubs_front(env, modules, i) ==
    IF i > Len(modules) THEN env
    ELSE push_stubs_front(
            [env EXCEPT !.module_data = <<stub_module_data(i - 1, modules[i])>> \o @],
            modules, i + 1)

RECURSIVE push_stubs(_, _, _)
push_stubs(env, modules, i) ==
    IF i > Len(modules) THEN env
    ELSE push_stubs([env EXCEPT !.module_data = Append(@, stub_module_data(i - 1, modules[i]))],
                    modules, i + 1)

run_bytecode_model_builder(modules) == push_stubs(GlobalEnv_new, modules, 1)

\* ------------------------------------------------------------------------
\* Outputs of the front end (parser, expansion, compiler, verifier)

\* Module k is defined in file k, the script in the file after the modules.
ScriptFile == NumModules + 1

ScriptKey == NumModules + 1

FileNames == 1..ScriptFile

\* The file tables the parser reports: the files of modules 1..n, with or
\* without the script file.
FileTables ==
    {(1..n) \cup s : n \in 0..NumModules, s \in {{}, {ScriptFile}}} \ {{}}

\* The files of library definitions: the libraries are the modules 1..d
\* (the modules the others use), with or without the script file.
DepTables(fs) ==
    {((1..d) \cup s) \cap fs : d \in 0..NumModules, s \in {{}, {ScriptFile}}}

\* Errors of a failing stage over the files fs: one error or MaxErrors
\* errors; the first has a
\* primary label in the first file and a secondary label in the last file,
\* the others a primary label in the last file.
MkErrors(n, fs) ==
    [i \in 1..n |->
        IF i = 1 THEN <<[loc |-> Min(fs), msg |-> "primary"],
                        [loc |-> Max(fs), msg |-> "secondary"]>>
        ELSE <<[loc |-> Max(fs), msg |-> "primary"]>>]

ErrorsOver(fs) == IF fs = {} THEN {} ELSE {MkErrors(n, fs) : n \in {1, MaxErrors}}

\* A neighbor with a smaller name is used by the module (Dependency); one
\* with a larger name is a declared friend.
NeighborMap(k, nbrs) ==
    [n \in nbrs |-> IF IdxOf(n) < k THEN "Dependency" ELSE "Friend"]

\* Module k declares the functions 1..k and the structs 1..k-1.
MkModule(k, nbrs, deps) ==
    [attributes |-> {},
     loc |-> k,
     immediate_neighbors |-> NeighborMap(k, nbrs),
     is_source_module |-> k \notin deps,
     friends |-> [n \in {m \in nbrs : IdxOf(m) > k} |-> "friend"],
     structs |-> [t \in 1..(k - 1) |-> "struct"],
     constants |-> <<>>,
     functions |-> [f \in 1..k |-> "fun"],
     specs |-> <<>>]

MkScript(fname, nbrs) ==
    [attributes |-> {},
     loc |-> ScriptFile,
     immediate_neighbors |-> [n \in nbrs |-> "Dependency"],
     function_name |-> fname,
     constants |-> (1 :> "const"),
     function |-> "body",
     specs |-> <<"spec">>]

\* The named addresses the expansion declares: name 1 is the address of the
\* modules 1, 4, ..; name 2 is declared and used by no module.
DeclaredAddresses == [n \in {1, 2} |-> Some(n % (MaxAddr + 1))]

\* The immediate-neighbor edges <<from, to>> a program over the files fs can
\* have: from a module or the script (named by its key) to another module.
PossibleEdges(fs) ==
    {e \in fs \X (fs \cap (1..NumModules)) : e[1] # e[2]}

\* The expanded programs over the files fs: every module file holds its
\* module; at most MaxEdges immediate-neighbor edges.
ExpandedPrograms(fs, deps) ==
    LET present == {Ident(k) : k \in fs \cap (1..NumModules)}
        nbrs(E, k) == {Ident(e[2]) : e \in {d \in E : d[1] = k}}
    IN {[addresses |-> DeclaredAddresses,
         modules |-> [m \in present |-> MkModule(IdxOf(m), nbrs(E, IdxOf(m)), deps)],
         scripts |-> IF ScriptFile \in fs
                     THEN (ScriptKey :> MkScript(ScriptKey, nbrs(E, ScriptFile)))
                     ELSE <<>>]
        : E \in {D \in SUBSET PossibleEdges(fs) : Cardinality(D) <= MaxEdges}}

EmptyProgram == [addresses |-> <<>>, modules |-> <<>>, scripts |-> <<>>]

UsedBy(def) == {n \in DOMAIN def.immediate_neighbors : def.immediate_neighbors[n] = "Dependency"}

\* The ModuleId (address bytes, name) the compiler gives a module identity.
CompiledId(m, addresses) ==
    [address |-> resolve_address(named_address_mapping_of([addresses |-> addresses]),
                                 m.address),
     name |-> m.module]

\* A CompiledModule: its self id (none for a compiled script), the ids of
\* the modules it uses, its function and struct definitions (by name).
CompiledModule(self_id, deps, fdefs, sdefs) ==
    [self_id |-> self_id, deps |-> deps, function_defs |-> fdefs, struct_defs |-> sdefs]

ModuleUnit(m, def, addresses) ==
    [kind |-> "Module", ident |-> Some(m), key |-> None,
     module |-> CompiledModule(Some(CompiledId(m, addresses)),
                               {CompiledId(n, addresses) : n \in UsedBy(def)},
                               SortedSeq(DOMAIN def.functions),
                               SortedSeq(DOMAIN def.structs)),
     function_infos |-> DOMAIN def.functions]

ScriptUnit(key, def, addresses) ==
    [kind |-> "Script", ident |-> None, key |-> Some(key),
     module |-> CompiledModule(None, {CompiledId(n, addresses) : n \in UsedBy(def)},
                               <<def.function_name>>, <<>>),
     function_infos |-> {def.function_name}]

\* The compiled module b is a module the compiled module a uses.
Uses(a, b) == b.self_id # None /\ b.self_id[1] \in a.deps

\* The unit at position j is a module the unit at position i uses.
UsesUnit(us, i, j) == Uses(us[i].module, us[j].module)

\* Units are in dependency order: a used module comes before its user.
DependencyOrdered(us) ==
    \A i, j \in 1..Len(us) : UsesUnit(us, i, j) => j < i

\* The compiler can compile the program: every used module is in it.
Compilable(east) ==
    /\ \A m \in DOMAIN east.modules : UsedBy(east.modules[m]) \subseteq DOMAIN east.modules
    /\ \A k \in DOMAIN east.scripts : UsedBy(east.scripts[k]) \subseteq DOMAIN east.modules

\* A dependency order of the modules: repeatedly the ready module (all the
\* modules it uses are emitted) that pick selects.
RECURSIVE TopoOrder(_, _, _)
TopoOrder(modules, done, smallest) ==
    LET left == DOMAIN modules \ Range(done)
        ready == {m \in left : UsedBy(modules[m]) \cap left = {}}
    IN IF ready = {} THEN done
       ELSE LET ks == {IdxOf(m) : m \in ready}
                next == IF smallest THEN Min(ks) ELSE Max(ks)
            IN TopoOrder(modules, Append(done, Ident(next)), smallest)

\* The unit sequences the compiler emits for a program: its modules in a
\* dependency order (smallest or largest ready module first), then its
\* scripts in key order.
CompiledUnits(east) ==
    LET skeys == SortedSeq(DOMAIN east.scripts)
        sunits == [i \in 1..Len(skeys) |-> ScriptUnit(skeys[i], east.scripts[skeys[i]],
                                                   east.addresses)]
        units_of(p) == [i \in 1..Len(p) |-> ModuleUnit(p[i], east.modules[p[i]],
                                                    east.addresses)] \o sunits
    IN {units_of(TopoOrder(east.modules, <<>>, TRUE)),
        units_of(TopoOrder(east.modules, <<>>, FALSE))}

ProgramFiles(east) ==
    {east.modules[m].loc : m \in DOMAIN east.modules}
        \cup {east.scripts[k].loc : k \in DOMAIN east.scripts}

\* ------------------------------------------------------------------------
\* FunctionTarget (function_target.rs).  A string is a sequence of atoms
\* <<text, number>>; the rendering is the sequence of its lines.  A call
\* returns a value or panics.

Atom(text) == <<text, 0>>

Returned(v) == [tag |-> "Ok", value |-> Some(v)]

Unit == [tag |-> "Ok", value |-> None]

Panic == [tag |-> "panic", value |-> None]

\* function_target.rs 190-193: the formatters of lifetime_analysis and
\* reaching_def_analysis
FormatterKinds == {"lifetime", "reaching_def"}

\* The FunctionEnv of a function with nl locals, nr return values and nc
\* instructions.
MkFunctionEnv(nl, nr, nc) ==
    [name |-> <<"sym", 1>>,
     module_name |-> <<"sym", 2>>,
     is_public |-> nr % 2 = 0,
     type_parameters |-> [i \in 1..(nc % 3) |-> <<"tparam", i>>],
     parameter_count |-> (nl + 1) \div 2,
     loc |-> <<"decl", 0>>]

\* The annotations of a function with nc instructions, by formatter and
\* code offset: none; one for every formatter at every offset; or one of
\* lifetime at the even offsets and an empty one of reaching_def at offset 0.
AnnotationTables(nc) ==
    LET keys == FormatterKinds \X (0..(nc - 1))
    IN {[x \in keys |-> None],
        [x \in keys |-> Some(<<x>>)],
        [x \in keys |-> IF x[1] = "lifetime" /\ x[2] % 2 = 0 THEN Some(<<x>>)
                        ELSE IF x[1] = "reaching_def" /\ x[2] = 0 THEN Some(<<>>)
                        ELSE None]}

\* The attributes that have a location: none, or the odd ones.
LocatedSets(nc) == {{}, {a \in 1..nc : a % 2 = 1}}

\* function_target.rs 33-39: instruction i has attribute i
MkData(nl, nr, nc, located, ann) ==
    [code |-> [i \in 1..nc |-> [attr_id |-> i]],
     local_types |-> [i \in 1..nl |-> <<"T", i>>],
     return_types |-> [i \in 1..nr |-> <<"R", i>>],
     locations |-> [a \in located |-> <<"loc", a>>],
     annotations |-> ann]

NoTarget == [created |-> FALSE, func_env |-> <<>>, data |-> <<>>,
             annotation_formatters |-> <<>>]

\* function_target.rs 42-51
FunctionTarget_new(func_env, data) ==
    [created |-> TRUE, func_env |-> func_env, data |-> data,
     annotation_formatters |-> <<>>]

\* function_target.rs 74-76
get_loc(t) == t.func_env.loc

\* the location map is not consulted
get_bytecode_loc_decl_only(t, attr_id) == get_loc(t)

\* function_target.rs 79-85
get_bytecode_loc(t, attr_id) ==
    IF attr_id \in DOMAIN t.data.locations
    THEN t.data.locations[attr_id]
    ELSE get_loc(t)

\* function_target.rs 118-120
get_return_count(t) == Len(t.data.return_types)

\* function_target.rs 108-110: &self.data.return_types[idx]
get_return_type(t, idx) ==
    IF idx < Len(t.data.return_types) THEN Returned(t.data.return_types[idx + 1])
    ELSE Panic

\* function_target.rs 122-124
get_parameter_count(t) == t.func_env.parameter_count

\* function_target.rs 128-130
get_local_name(t, idx) == <<"local", idx>>

\* function_target.rs 133-135
get_local_count(t) == Len(t.data.local_types)

\* an index beyond the locals gives the last local
get_local_type_clamped(t, idx) ==
    IF idx < Len(t.data.local_types) THEN Returned(t.data.local_types[idx + 1])
    ELSE IF t.data.local_types = <<>> THEN Panic
    ELSE Returned(t.data.local_types[Len(t.data.local_types)])

\* function_target.rs 145-147: &self.data.local_types[idx]
get_local_type(t, idx) ==
    IF idx < Len(t.data.local_types) THEN Returned(t.data.local_types[idx + 1])
    ELSE Panic

\* function_target.rs 160-162
get_code(t) == t.data.code

\* the formatter is put in front of the list
register_annotation_formatter_front(t, formatter) ==
    [t EXCEPT !.annotation_formatters = <<formatter>> \o @]

\* function_target.rs 183-185
register_annotation_formatter(t, formatter) ==
    [t EXCEPT !.annotation_formatters = Append(@, formatter)]

\* function_target.rs 189-194
register_annotation_formatters_for_test(t) ==
    register_annotation_formatter(register_annotation_formatter(t, "lifetime"),
                                  "reaching_def")

\* A formatter picks the annotation of its kind at the offset, if any.
apply_formatter(formatter, t, offset) == t.data.annotations[<<formatter, offset>>]

\* itertools join: the strings with sep between them
RECURSIVE Join(_, _)
Join(strs, sep) ==
    IF strs = <<>> THEN <<>>
    ELSE IF Len(strs) = 1 THEN strs[1]
    ELSE strs[1] \o sep \o Join(Tail(strs), sep)

\* the formatters are applied from the last registered to the first
annotations_at_reversed(t, offset) ==
    LET n == Len(t.annotation_formatters)
        outs == [i \in 1..n |->
                    apply_formatter(t.annotation_formatters[n + 1 - i], t, offset)]
        some == SelectSeq(outs, LAMBDA o : o # None)
    IN Join([i \in 1..Len(some) |-> some[i][1]], <<Atom(", ")>>)

\* function_target.rs 261-266: filter_map over the formatters, join(", ")
annotations_at(t, offset) ==
    LET outs == [i \in 1..Len(t.annotation_formatters) |->
                    apply_formatter(t.annotation_formatters[i], t, offset)]
        some == SelectSeq(outs, LAMBDA o : o # None)
    IN Join([i \in 1..Len(some) |-> some[i][1]], <<Atom(", ")>>)

\* function_target.rs 260-271: the lines of the instruction at the offset
code_lines(t, offset) ==
    LET annotations == annotations_at(t, offset)
        code == get_code(t)[offset + 1]
    IN (IF annotations # <<>> THEN << <<Atom("    // ")>> \o annotations >> ELSE <<>>)
       \o << <<Atom("    "), <<"bytecode", code.attr_id>> >> >>

RECURSIVE all_code_lines(_, _)
all_code_lines(t, offset) ==
    IF offset >= Len(get_code(t)) THEN <<>>
    ELSE code_lines(t, offset) \o all_code_lines(t, offset + 1)

\* function_target.rs 197-275: impl fmt::Display for FunctionTarget
fmt(t) ==
    IF get_parameter_count(t) > get_local_count(t) THEN Panic
    ELSE
    LET tparams == t.func_env.type_parameters
        local(i) == <<get_local_name(t, i), Atom(": "), get_local_type(t, i).value[1]>>
        count == get_return_count(t)
        header ==
            (IF t.func_env.is_public THEN <<Atom("pub ")>> ELSE <<>>)
            \o <<Atom("fun "), t.func_env.module_name, Atom("::"), t.func_env.name>>
            \o (IF tparams # <<>>
                THEN <<Atom("<")>>
                     \o Join([i \in 1..Len(tparams) |-> <<tparams[i]>>], <<Atom(", ")>>)
                     \o <<Atom(">")>>
                ELSE <<>>)
            \o <<Atom("(")>>
            \o Join([i \in 1..get_parameter_count(t) |-> local(i - 1)], <<Atom(", ")>>)
            \o <<Atom(")")>>
            \o (IF count > 0
                THEN <<Atom(": ")>>
                     \o (IF count > 1 THEN <<Atom("(")>> ELSE <<>>)
                     \o Join([i \in 1..count |-> <<get_return_type(t, i - 1).value[1]>>],
                             <<Atom(", ")>>)
                     \o (IF count > 1 THEN <<Atom(")")>> ELSE <<>>)
                ELSE <<>>)
            \o <<Atom(" {")>>
        vars_from == get_parameter_count(t)
        var_lines == [k \in 1..(get_local_count(t) - vars_from) |->
                         <<Atom("    var ")>> \o local(vars_from + k - 1)]
    IN Returned(<<header>> \o var_lines \o all_code_lines(t, 0) \o << <<Atom("}")>> >>)

NoCalls == [call |-> [op |-> "none", arg |-> 0, ret |-> Unit], shown |-> {}, nshown |-> 0]

\* ------------------------------------------------------------------------
\* State of one call of run_model_builder_with_compilation_flags

VARIABLES
    pc,                 \* position in the builder
    result,             \* "none", "Ok" (an environment), "Err" or "panic"
    env,                \* the GlobalEnv under construction
    files,              \* file table reported by the parser
    dep_sources,        \* files of the library definitions
    unfiltered,         \* the expanded program as the expansion produced it
    expansion_ast,      \* the variable expansion_ast
    visit,              \* visited_modules and the modules expanded for it
    visited_addresses,
    units,              \* compiled (later verified) units
    merged,             \* the tuples run_spec_checker merged
    modules_in,         \* the compiled modules given to run_bytecode_model_builder
    stages,             \* the stages run so far, in order
    failed,             \* the stage that failed, "io" (files unreadable) or "none"
    reported,           \* the errors the failing stage reported
    target,             \* a FunctionTarget (function_target.rs)
    peer,               \* a second FunctionTarget of the same function and data
    obs                 \* the last call on the target and what it returned

vars == <<pc, result, env, files, dep_sources, unfiltered, expansion_ast, visit,
          visited_addresses, units, merged, modules_in, stages, failed, reported,
          target, peer, obs>>

Init ==
    /\ pc = "start"
    /\ result = "none"
    /\ env = GlobalEnv_new
    /\ files = {}
    /\ dep_sources = {}
    /\ unfiltered = EmptyProgram
    /\ expansion_ast = EmptyProgram
    /\ visit = NewVisit
    /\ visited_addresses = {}
    /\ units = <<>>
    /\ merged = <<>>
    /\ modules_in = <<>>
    /\ stages = <<>>
    /\ failed = "none"
    /\ reported = <<>>
    /\ target = NoTarget
    /\ peer = NoTarget
    /\ obs = NoCalls

\* The locals of the builder go out of scope when it returns; visit stays
\* as the record of the closure the call computed.
DropLocals ==
    /\ dep_sources' = {}
    /\ unfiltered' = EmptyProgram
    /\ expansion_ast' = EmptyProgram
    /\ visited_addresses' = {}
    /\ units' = <<>>
    /\ merged' = <<>>

\* A stage failed with errors: add_move_lang_errors(&mut env, errors);
\* return Ok(env).
FailWith(stage, e, errors) ==
    LET envp == add_move_lang_errors([env |-> e, panicked |-> FALSE], errors)
    IN /\ env' = envp.env
       /\ result' = IF envp.panicked THEN "panic" ELSE "Ok"
       /\ pc' = "done"
       /\ stages' = Append(stages, stage)
       /\ failed' = stage
       /\ reported' = errors
       /\ DropLocals
       /\ UNCHANGED visit
       /\ UNCHANGED <<modules_in, target, peer, obs>>

\* lib.rs 70-72: the files cannot be read, `?` returns the error
ParseIoError ==
    /\ pc = "start"
    /\ pc' = "done"
    /\ result' = "Err"
    /\ stages' = Append(stages, "parse")
    /\ failed' = "io"
    /\ UNCHANGED <<env, files, dep_sources, unfiltered, expansion_ast, visit,
                   visited_addresses, units, merged, reported>>
    /\ UNCHANGED <<modules_in, target, peer, obs>>

\* lib.rs 74-82: the parser reports errors
ParseFail ==
    /\ pc = "start"
    /\ \E fs \in FileTables : \E errors \in ErrorsOver(fs) :
          /\ files' = fs
          /\ FailWith("parse", add_sources(env, SortedSeq(fs), {}), errors)

\* lib.rs 83-101: the parser succeeds with the file table fs, the library
\* files deps and the comment map; sources and comments are registered.
ParseOkWith(fs, deps, comment_map) ==
    LET env1 == add_sources(env, SortedSeq(fs), deps)
        envp == add_comments([env |-> env1, panicked |-> FALSE],
                             SortedSeq(DOMAIN comment_map), comment_map)
    IN /\ files' = fs
       /\ dep_sources' = deps
       /\ env' = envp.env
       /\ pc' = IF envp.panicked THEN "done" ELSE "parsed"
       /\ result' = IF envp.panicked THEN "panic" ELSE result
       /\ stages' = Append(stages, "parse")
       /\ UNCHANGED <<unfiltered, expansion_ast, visit, visited_addresses, units, merged,
                      failed, reported>>
       /\ UNCHANGED <<modules_in, target, peer, obs>>

\* lib.rs 83-101: the comment map has an entry for every target file.
ParseOk ==
    /\ pc = "start"
    /\ \E fs \in FileTables : \E deps \in DepTables(fs) :
          ParseOkWith(fs, deps, [f \in fs \ deps |-> "doc"])

\* lib.rs 115-119
ExpandFail ==
    /\ pc = "parsed"
    /\ \E errors \in ErrorsOver(files) : FailWith("expand", env, errors)
    /\ UNCHANGED files

\* lib.rs 115-121
ExpandOk ==
    /\ pc = "parsed"
    /\ \E east \in ExpandedPrograms(files, dep_sources) :
          /\ expansion_ast' = east
          /\ unfiltered' = east
    /\ pc' = "expanded"
    /\ stages' = Append(stages, "expand")
    /\ UNCHANGED <<result, env, files, dep_sources, visit, visited_addresses, units,
                   merged, failed, reported>>
    /\ UNCHANGED <<modules_in, target, peer, obs>>

\* lib.rs 122-168: module/script closure and selective filtering
Closure ==
    /\ pc = "expanded"
    /\ visit' = module_closure(expansion_ast, dep_sources, KeyOrder, KeyOrder)
    /\ visited_addresses' = named_addresses_of(visit'.visited)
    /\ IF visit'.panicked
       THEN /\ pc' = "done"
            /\ result' = "panic"
            /\ UNCHANGED expansion_ast
       ELSE /\ pc' = "filtered"
            /\ expansion_ast' = filter_program(expansion_ast, visit'.visited,
                                               visited_addresses')
            /\ UNCHANGED result
    /\ stages' = Append(stages, "closure")
    /\ UNCHANGED <<env, files, dep_sources, unfiltered, units, merged, failed, reported>>
    /\ UNCHANGED <<modules_in, target, peer, obs>>

\* the compiler is run on the program as it was before the filtering
CompileFailUnfiltered ==
    /\ pc = "filtered"
    /\ \E errors \in ErrorsOver(ProgramFiles(unfiltered)) :
          FailWith("compile", env, errors)
    /\ UNCHANGED files

\* lib.rs 170-177: compilation of the filtered program reports errors
CompileFail ==
    /\ pc = "filtered"
    /\ \E errors \in ErrorsOver(ProgramFiles(expansion_ast)) :
          FailWith("compile", env, errors)
    /\ UNCHANGED files

\* lib.rs 170-179
CompileOk ==
    /\ pc = "filtered"
    /\ Compilable(expansion_ast)
    /\ \E us \in CompiledUnits(expansion_ast) : units' = us
    /\ pc' = "compiled"
    /\ stages' = Append(stages, "compile")
    /\ UNCHANGED <<result, env, files, dep_sources, unfiltered, expansion_ast, visit,
                   visited_addresses, merged, failed, reported>>
    /\ UNCHANGED <<modules_in, target, peer, obs>>

VerifyFailNoReturn ==
    /\ pc = "compiled"
    /\ units # <<>>
    /\ \E errors \in ErrorsOver(ProgramFiles(expansion_ast)) :
          /\ env' = add_move_lang_errors([env |-> env, panicked |-> FALSE], errors).env
          /\ reported' = errors
    /\ failed' = "verify"
    /\ pc' = "verified"
    /\ stages' = Append(stages, "verify")
    /\ UNCHANGED <<result, files, dep_sources, unfiltered, expansion_ast, visit,
                   visited_addresses, units, merged, modules_in, target, peer, obs>>

\* lib.rs 181-185: the bytecode verifier reports errors
VerifyFail ==
    /\ pc = "compiled"
    /\ units # <<>>
    /\ \E errors \in ErrorsOver(ProgramFiles(expansion_ast)) :
          FailWith("verify", env, errors)
    /\ UNCHANGED files

\* lib.rs 181-182: every unit verifies
VerifyOk ==
    /\ pc = "compiled"
    /\ pc' = "verified"
    /\ stages' = Append(stages, "verify")
    /\ UNCHANGED <<result, env, files, dep_sources, unfiltered, expansion_ast, visit,
                   visited_addresses, units, merged, failed, reported>>
    /\ UNCHANGED <<modules_in, target, peer, obs>>

\* lib.rs 189-190: run_spec_checker(&mut env, verified_units, expansion_ast)
Merge ==
    /\ pc = "verified"
    /\ LET r == run_spec_checker(env, units, expansion_ast)
       IN /\ env' = r.env
          /\ merged' = r.items
    /\ pc' = "done"
    /\ result' = "Ok"
    /\ stages' = Append(stages, "merge")
    /\ UNCHANGED <<files, dep_sources, unfiltered, expansion_ast, visit,
                   visited_addresses, units, failed, reported>>
    /\ UNCHANGED <<modules_in, target, peer, obs>>

Next ==
    \/ ParseIoError
    \/ ParseFail
    \/ ParseOk
    \/ ExpandFail
    \/ ExpandOk
    \/ Closure
    \/ CompileFail
    \/ CompileOk
    \/ VerifyFail
    \/ VerifyOk
    \/ Merge

Spec == Init /\ [][Next]_vars

\* ------------------------------------------------------------------------
\* The builder on malformed output of the front end: a comment map that
\* names a file absent from the file table, an error without labels, and
\* an immediate-neighbor edge to a module absent from the module table.

\* A file name that no file table holds.
StrayFile == ScriptFile + 1

\* lib.rs 83-101 with a comment map that also names the stray file
ParseOkStrayComment ==
    /\ pc = "start"
    /\ \E fs \in FileTables : \E deps \in DepTables(fs) :
          ParseOkWith(fs, deps, [f \in (fs \ deps) \cup {StrayFile} |-> "doc"])

\* Errors one of which has an empty list of labels: alone, or after a
\* well-formed error.
ErrorsWithoutLabels(fs) == {<< <<>> >>, Append(MkErrors(1, fs), <<>>)}

\* lib.rs 74-82 with an error that has no label
ParseFailNoLabels ==
    /\ pc = "start"
    /\ \E fs \in FileTables : \E errors \in ErrorsWithoutLabels(fs) :
          /\ files' = fs
          /\ FailWith("parse", add_sources(env, SortedSeq(fs), {}), errors)

\* lib.rs 170-177 with an error that has no label
CompileFailNoLabels ==
    /\ pc = "filtered"
    /\ ProgramFiles(expansion_ast) # {}
    /\ \E errors \in ErrorsWithoutLabels(ProgramFiles(expansion_ast)) :
          FailWith("compile", env, errors)
    /\ UNCHANGED files

\* The program east with one more immediate neighbor of the module or
\* script of file from.
AddNeighbor(east, from, mident) ==
    IF from = ScriptFile
    THEN [east EXCEPT !.scripts[ScriptKey].immediate_neighbors =
             [n \in DOMAIN @ \cup {mident} |-> "Dependency"]]
    ELSE [east EXCEPT !.modules[Ident(from)].immediate_neighbors =
             NeighborMap(from, DOMAIN @ \cup {mident})]

\* The expanded programs over the files fs whose modules have at most one
\* module as immediate neighbor, with one more edge, to a module that is
\* absent from the module table.
DanglingPrograms(fs, deps) ==
    {AddNeighbor(east, from, Ident(t)) :
        east \in {p \in ExpandedPrograms(fs, deps) :
                    Cardinality(UNION {DOMAIN p.modules[m].immediate_neighbors :
                                          m \in DOMAIN p.modules}) <= 1},
        from \in fs,
        t \in (1..NumModules) \ fs}

\* lib.rs 115-121 with an expanded program that has a dangling edge
ExpandOkDangling ==
    /\ pc = "parsed"
    /\ \E east \in DanglingPrograms(files, dep_sources) :
          /\ expansion_ast' = east
          /\ unfiltered' = east
    /\ pc' = "expanded"
    /\ stages' = Append(stages, "expand")
    /\ UNCHANGED <<result, env, files, dep_sources, visit, visited_addresses, units,
                   merged, failed, reported>>
    /\ UNCHANGED <<modules_in, target, peer, obs>>

NextMalformed ==
    \/ Next
    \/ ParseOkStrayComment
    \/ ParseFailNoLabels
    \/ CompileFailNoLabels
    \/ ExpandOkDangling

SpecMalformed == Init /\ [][NextMalformed]_vars

\* ------------------------------------------------------------------------
\* The two builders on their own: run_spec_checker on any sequence of
\* compiled units and any expanded program (units may lack a definition),
\* and run_bytecode_model_builder on any sequence of compiled modules.

ScriptKeys == {ScriptKey, ScriptKey + 1}

\* The program the units are compiled from: all the modules and two scripts
\* with the same function name; with chain, module k uses module k - 1 and
\* the scripts use the last module.
CompiledFrom(chain, addr) ==
    [addresses |-> (1 :> addr),
     modules |-> [m \in ModuleIdents |->
                     MkModule(IdxOf(m),
                              IF chain /\ IdxOf(m) > 1 THEN {Ident(IdxOf(m) - 1)} ELSE {},
                              {})],
     scripts |-> [k \in ScriptKeys |->
                     MkScript(ScriptKey, IF chain THEN {Ident(NumModules)} ELSE {})]]

\* The part of the program cprog with the modules 1..n and the first ns
\* scripts.
ProgramPrefix(cprog, n, ns) ==
    [addresses |-> cprog.addresses,
     modules |-> Restrict(cprog.modules, {Ident(k) : k \in 1..n}),
     scripts |-> Restrict(cprog.scripts, {k \in ScriptKeys : k < ScriptKey + ns})]

AllUnits(cprog) ==
    {ModuleUnit(m, cprog.modules[m], cprog.addresses) : m \in DOMAIN cprog.modules}
        \cup {ScriptUnit(k, cprog.scripts[k], cprog.addresses) : k \in DOMAIN cprog.scripts}

\* The sequences of at most MaxUnits different elements of S.
InjectiveSeqs(S) ==
    UNION {{q \in [1..n -> S] : \A i, j \in 1..n : i # j => q[i] # q[j]}
              : n \in 0..MaxUnits}

InitBuilders ==
    /\ result = "none"
    /\ files = FileNames
    /\ dep_sources = {}
    /\ visit = NewVisit
    /\ visited_addresses = {}
    /\ merged = <<>>
    /\ failed = "none"
    /\ reported = <<>>
    /\ target = NoTarget
    /\ peer = NoTarget
    /\ obs = NoCalls
    /\ \E chain \in BOOLEAN, addr \in {None, Some(0), Some(MaxAddr)} :
          LET cprog == CompiledFrom(chain, addr)
          IN \/ /\ pc = "verified"
                /\ stages = <<"parse", "expand", "closure", "compile", "verify">>
                /\ env = add_sources(GlobalEnv_new, SortedSeq(FileNames), {})
                /\ units \in InjectiveSeqs(AllUnits(cprog))
                /\ \E n \in 0..NumModules, ns \in 0..Cardinality(ScriptKeys) :
                      expansion_ast = ProgramPrefix(cprog, n, ns)
                /\ unfiltered = expansion_ast
                /\ modules_in = <<>>
             \/ /\ pc = "bytecode"
                /\ stages = <<>>
                /\ env = GlobalEnv_new
                /\ units = <<>>
                /\ expansion_ast = EmptyProgram
                /\ unfiltered = EmptyProgram
                /\ modules_in \in InjectiveSeqs({u.module :
                      u \in {v \in AllUnits(cprog) : v.kind = "Module"}})

\* lib.rs 216-252
BytecodeBuild ==
    /\ pc = "bytecode"
    /\ env' = run_bytecode_model_builder(modules_in)
    /\ result' = "Ok"
    /\ pc' = "done"
    /\ stages' = Append(stages, "bytecode")
    /\ UNCHANGED <<files, dep_sources, unfiltered, expansion_ast, visit,
                   visited_addresses, units, merged, modules_in, failed, reported,
                   target, peer, obs>>

NextBuilders ==
    \/ Merge
    \/ BytecodeBuild

SpecBuilders == InitBuilders /\ [][NextBuilders]_vars

\* ------------------------------------------------------------------------
\* Calls on one FunctionTarget.  obs.call is the last call with its argument
\* and what it returned; obs.shown holds the renderings since the formatter
\* list last changed and obs.nshown their number (up to 2).  A panic ends
\* the use of the target.

builder_vars == <<pc, result, env, files, dep_sources, unfiltered, expansion_ast, visit,
                  visited_addresses, units, merged, modules_in, stages, failed, reported>>

Live == target.created /\ obs.call.ret.tag # "panic"

\* function_target.rs 42-51: two targets of the same function and data
CallNew ==
    /\ ~target.created
    /\ \E nl \in 0..MaxLocals, nr \in 0..MaxReturns, nc \in 0..MaxCode :
          \E located \in LocatedSets(nc), ann \in AnnotationTables(nc) :
              /\ target' = FunctionTarget_new(MkFunctionEnv(nl, nr, nc),
                                              MkData(nl, nr, nc, located, ann))
              /\ peer' = FunctionTarget_new(MkFunctionEnv(nl, nr, nc),
                                            MkData(nl, nr, nc, located, ann))
    /\ obs' = [NoCalls EXCEPT !.call.op = "new"]
    /\ UNCHANGED builder_vars

\* function_target.rs 183-185
CallRegister ==
    /\ Live
    /\ Len(target.annotation_formatters) < MaxFormatters
    /\ \E formatter \in FormatterKinds :
          /\ target' = register_annotation_formatter(target, formatter)
          /\ obs' = [call |-> [op |-> "register_annotation_formatter",
                               arg |-> formatter, ret |-> Unit],
                     shown |-> {}, nshown |-> 0]
    /\ UNCHANGED peer
    /\ UNCHANGED builder_vars

\* function_target.rs 183-185, called on the second target (once)
CallRegisterPeer ==
    /\ Live
    /\ peer.annotation_formatters = <<>>
    /\ \E formatter \in FormatterKinds :
          /\ peer' = register_annotation_formatter(peer, formatter)
          /\ obs' = [obs EXCEPT !.call = [op |-> "peer.register_annotation_formatter",
                                          arg |-> formatter, ret |-> Unit]]
    /\ UNCHANGED target
    /\ UNCHANGED builder_vars

\* function_target.rs 189-194
CallRegisterForTest ==
    /\ Live
    /\ Len(target.annotation_formatters) + 2 <= MaxFormatters
    /\ target' = register_annotation_formatters_for_test(target)
    /\ obs' = [call |-> [op |-> "register_annotation_formatters_for_test",
                         arg |-> 0, ret |-> Unit],
               shown |-> {}, nshown |-> 0]
    /\ UNCHANGED peer
    /\ UNCHANGED builder_vars

\* function_target.rs 197-275
CallFmt ==
    /\ Live
    /\ LET r == fmt(target)
       IN obs' = [call |-> [op |-> "fmt", arg |-> 0, ret |-> r],
                  shown |-> obs.shown \cup {r},
                  nshown |-> Min({obs.nshown + 1, 2})]
    /\ UNCHANGED <<target, peer>>
    /\ UNCHANGED builder_vars

\* function_target.rs 145-147
CallGetLocalType ==
    /\ Live
    /\ \E idx \in 0..MaxLocals :
          obs' = [obs EXCEPT !.call = [op |-> "get_local_type", arg |-> idx,
                                       ret |-> get_local_type(target, idx)]]
    /\ UNCHANGED <<target, peer>>
    /\ UNCHANGED builder_vars

\* function_target.rs 108-110
CallGetReturnType ==
    /\ Live
    /\ \E idx \in 0..MaxReturns :
          obs' = [obs EXCEPT !.call = [op |-> "get_return_type", arg |-> idx,
                                       ret |-> get_return_type(target, idx)]]
    /\ UNCHANGED <<target, peer>>
    /\ UNCHANGED builder_vars

\* function_target.rs 79-85
CallGetBytecodeLoc ==
    /\ Live
    /\ \E attr_id \in 1..MaxCode :
          obs' = [obs EXCEPT !.call = [op |-> "get_bytecode_loc", arg |-> attr_id,
                                       ret |-> Returned(get_bytecode_loc(target, attr_id))]]
    /\ UNCHANGED <<target, peer>>
    /\ UNCHANGED builder_vars

NextTarget ==
    \/ CallNew
    \/ CallRegister
    \/ CallRegisterPeer
    \/ CallRegisterForTest
    \/ CallFmt
    \/ CallGetLocalType
    \/ CallGetReturnType
    \/ CallGetBytecodeLoc

SpecTarget == Init /\ [][NextTarget]_vars

\* ------------------------------------------------------------------------
\* Properties of run_model_builder_with_compilation_flags

StageOrder == <<"parse", "expand", "closure", "compile", "verify", "merge">>

FileNameOfId(e, id) == e.source_files[id].name

\* The diagnostic d renders the error labels: same number of labels, each
\* with the message of the label and the id of a file with the label's name.
RendersError(e, d, labels) ==
    LET all == <<d.primary>> \o d.secondary
    IN /\ d.severity = "Error"
       /\ Len(all) = Len(labels)
       /\ \A i \in 1..Len(labels) :
             /\ all[i].message = labels[i].msg
             /\ all[i].file_id \in 1..Len(e.source_files)
             /\ FileNameOfId(e, all[i].file_id) = labels[i].loc

\* C1: whenever the parser could be run (the source files were readable),
\* the builder returns Ok(env) whatever stages succeed or fail, and the
\* diagnostics of the returned environment contain one diagnostic for each
\* error the failing stage reported.
C1_ReturnsEnvWithDiagnostics ==
    (pc = "done" /\ failed # "io") =>
        /\ result = "Ok"
        /\ \A i \in 1..Len(reported) :
              \E j \in 1..Len(env.diags) : RendersError(env, env.diags[j], reported[i])
        /\ failed # "none" => reported # <<>> /\ Len(env.diags) >= Len(reported)

C1_Witness ==
    /\ pc = "done"
    /\ failed = "verify"
    /\ result = "Ok"
    /\ Len(reported) > 1
    /\ Len(env.diags) = Len(reported)

\* C2: the stages run in the order parse, expand, closure filtering,
\* compile, verify, merge; a failed stage is the last stage run; the merge
\* runs only if no stage failed; an environment returned after a failure has
\* no module entries.
C2_StagesInOrderHardStop ==
    /\ Len(stages) <= Len(StageOrder)
    /\ \A i \in 1..Len(stages) : stages[i] = StageOrder[i]
    /\ failed \notin {"none", "io"} =>
          /\ pc = "done"
          /\ stages[Len(stages)] = failed
          /\ "merge" \notin Range(stages)
          /\ env.module_data = <<>>
    /\ "merge" \in Range(stages) =>
          /\ failed = "none"
          /\ {"parse", "expand", "compile", "verify"} \subseteq Range(stages)

C2_Witness ==
    /\ pc = "done"
    /\ failed = "compile"
    /\ stages = <<"parse", "expand", "closure", "compile">>
    /\ env.module_data = <<>>
    /\ env.diags # <<>>

\* C3: when parsing fails, the source-file table of the returned
\* environment holds exactly the files the parser reported, each once, and
\* every label of every diagnostic has the id of a file of the table.
C3_ParseFailureFileTable ==
    (pc = "done" /\ failed = "parse") =>
        /\ {env.source_files[i].name : i \in 1..Len(env.source_files)} = files
        /\ Len(env.source_files) = Cardinality(files)
        /\ \A j \in 1..Len(env.diags) :
              \A l \in Range(<<env.diags[j].primary>> \o env.diags[j].secondary) :
                  l.file_id \in 1..Len(env.source_files)

C3_Witness ==
    /\ pc = "done"
    /\ failed = "parse"
    /\ Cardinality(files) > 1
    /\ Len(env.diags) > 1
    /\ env.diags[1].primary.file_id # env.diags[1].secondary[1].file_id

\* ------------------------------------------------------------------------
\* Properties of the dependency closure

NeighborsOf(def) == DOMAIN def.immediate_neighbors

\* The roots of the closure: the modules of target files and the immediate
\* neighbors of the scripts of target files.
ClosureRoots(east, deps) ==
    {m \in DOMAIN east.modules : east.modules[m].loc \notin deps}
        \cup UNION {NeighborsOf(east.scripts[k]) :
                        k \in {j \in DOMAIN east.scripts : east.scripts[j].loc \notin deps}}

\* The modules reachable from S by zero or more immediate-neighbor edges.
RECURSIVE ReachableFrom(_, _)
ReachableFrom(S, modules) ==
    LET next == S \cup UNION {NeighborsOf(modules[m]) : m \in S \cap DOMAIN modules}
    IN IF next = S THEN S ELSE ReachableFrom(next, modules)

Filtered == pc \in {"filtered", "compiled", "verified"}

\* C4: after closure filtering a module of the expanded program is retained
\* if and only if it is reachable from a root of the closure.
C4_RetainedIffReachable ==
    Filtered =>
        \A m \in DOMAIN unfiltered.modules :
            m \in DOMAIN expansion_ast.modules
                <=> m \in ReachableFrom(ClosureRoots(unfiltered, dep_sources),
                                        unfiltered.modules)

\* a module of a dependency file is retained because a root reaches it, and
\* another module is excluded
C4_Witness ==
    /\ pc = "filtered"
    /\ DOMAIN expansion_ast.modules # DOMAIN unfiltered.modules
    /\ \E m \in DOMAIN expansion_ast.modules :
          /\ m \notin ClosureRoots(unfiltered, dep_sources)
          /\ unfiltered.modules[m].loc \in dep_sources

Reverse(s) == [i \in 1..Len(s) |-> s[Len(s) + 1 - i]]

\* the closure with the scripts visited before the modules
ClosureScriptsFirst(east, deps, kord, ord) ==
    visit_modules(InOrder(DOMAIN east.modules, kord), east.modules, deps,
                  visit_scripts(SortedSeq(DOMAIN east.scripts), east.scripts,
                                east.modules, deps, NewVisit, ord),
                  ord)

\* C5: the visited set is the same whatever the order in which the roots
\* are iterated (module keys in any order, scripts before or after the
\* modules) and whatever the order in which neighbors are followed; calling
\* collect_related_modules_recursive again for a root changes nothing.
C5_ClosureOrderIndependent ==
    pc = "filtered" =>
        /\ \A p \in Perms(ModuleIdents) :
              /\ module_closure(unfiltered, dep_sources, p, Reverse(p)).visited
                    = visit.visited
              /\ ClosureScriptsFirst(unfiltered, dep_sources, p, p).visited
                    = visit.visited
        /\ \A r \in ClosureRoots(unfiltered, dep_sources) :
              collect_related_modules_recursive(r, unfiltered.modules, visit, KeyOrder)
                  = visit

\* two roots, one of which reaches a module the other does not: the order
\* of the roots changes the order in which the modules are expanded
C5_Witness ==
    /\ pc = "filtered"
    /\ Cardinality(ClosureRoots(unfiltered, dep_sources)) > 1
    /\ Cardinality(visit.visited) > Cardinality(ClosureRoots(unfiltered, dep_sources))
    /\ \E p \in Perms(ModuleIdents) :
          module_closure(unfiltered, dep_sources, p, Reverse(p)).expanded # visit.expanded

\* C6: the traversal ends on every module graph (the closure step has an
\* outcome for every expanded program), and no module is expanded twice:
\* the modules expanded are the visited modules, each once.
C6_ExpandedAtMostOnce ==
    /\ pc = "expanded" => ENABLED Closure
    /\ Filtered =>
          /\ \A i, j \in 1..Len(visit.expanded) :
                i # j => visit.expanded[i] # visit.expanded[j]
          /\ Range(visit.expanded) = visit.visited
          /\ Len(visit.expanded) <= Cardinality(DOMAIN unfiltered.modules)

\* a cycle of immediate-neighbor edges among the visited modules
C6_Witness ==
    /\ pc = "filtered"
    /\ \E a, b \in visit.visited :
          /\ a # b
          /\ b \in NeighborsOf(unfiltered.modules[a])
          /\ a \in NeighborsOf(unfiltered.modules[b])

\* The labels of a diagnostic.
LabelsOf(d) == Range(<<d.primary>> \o d.secondary)

\* The files of the modules the closure of this call left out.
ExcludedFiles == {k \in files \cap (1..NumModules) : Ident(k) \notin visit.visited}

\* Target module B = module 2 and dependency module A = module 1 are the
\* modules of the program, and no script is a target.
TargetBDependencyA ==
    /\ DOMAIN unfiltered.modules = {Ident(1), Ident(2)}
    /\ dep_sources \cap {1, 2} = {1}
    /\ \A k \in DOMAIN unfiltered.scripts : unfiltered.scripts[k].loc \in dep_sources

\* C11: when the compilation of the filtered program fails, no label of a
\* diagnostic of the returned environment lies in the file of a module that
\* is outside the closure; with target B and dependency A the closure is
\* {A, B} if B imports A and {B} if B does not reach A.
C11_ExcludedModuleErrorsAbsent ==
    /\ (pc = "done" /\ failed = "compile") =>
          \A j \in 1..Len(env.diags) : \A l \in LabelsOf(env.diags[j]) :
              /\ l.file_id \in 1..Len(env.source_files)
              /\ FileNameOfId(env, l.file_id) \notin ExcludedFiles
    /\ (pc = "filtered" /\ TargetBDependencyA) =>
          /\ visit.visited = IF Ident(1) \in NeighborsOf(unfiltered.modules[Ident(2)])
                             THEN {Ident(1), Ident(2)} ELSE {Ident(2)}
          /\ DOMAIN expansion_ast.modules = visit.visited

\* the compilation failed with target B compiled and dependency A left out
C11_Witness ==
    /\ pc = "done"
    /\ failed = "compile"
    /\ {1, 2} \subseteq files
    /\ visit.visited = {Ident(2)}
    /\ 1 \in ExcludedFiles
    /\ env.diags # <<>>

\* The builder returned from the merge stage.
MergeDone == pc = "done" /\ stages # <<>> /\ stages[Len(stages)] = "merge"

\* C12: the expanded program given to run_spec_checker (the variable
\* expansion_ast at the call of line 189) contains every module and every
\* named address of the program the expansion stage produced.
C12_MergeGetsUnfilteredProgram ==
    MergeDone =>
        /\ DOMAIN unfiltered.modules \subseteq DOMAIN expansion_ast.modules
        /\ DOMAIN unfiltered.addresses \subseteq DOMAIN expansion_ast.addresses

\* ------------------------------------------------------------------------
\* Properties of run_spec_checker and run_bytecode_model_builder

BytecodeDone == pc = "done" /\ stages = <<"bytecode">>

\* The unit has a matching expanded definition in the program.
HasDefinition(u, eprog) ==
    IF u.kind = "Module" THEN u.ident[1] \in DOMAIN eprog.modules
    ELSE u.key[1] \in DOMAIN eprog.scripts

\* C7: the merge produces exactly one module entry for every unit that has
\* a matching expanded definition and none for any other unit; the entries
\* carry the compiled modules of their units, and their model identities
\* increase in the order of the units in the input sequence.
C7_OneEntryPerMatchedUnit ==
    MergeDone =>
        /\ Len(env.module_data) = Len(merged)
        /\ \A i \in 1..Len(units) :
              Cardinality({k \in 1..Len(merged) : merged[k].unit = i})
                  = IF HasDefinition(units[i], expansion_ast) THEN 1 ELSE 0
        /\ \A k \in 1..Len(merged) :
              /\ merged[k].unit \in 1..Len(units)
              /\ env.module_data[k].module = units[merged[k].unit].module
        /\ \A k, l \in 1..Len(merged) :
              merged[k].unit < merged[l].unit
                  <=> env.module_data[k].id < env.module_data[l].id

\* a unit without definition between two units with definitions
C7_Witness ==
    /\ MergeDone
    /\ Len(units) > 2
    /\ Len(env.module_data) = Len(units) - 1
    /\ ~HasDefinition(units[2], expansion_ast)
    /\ \E i \in 1..Len(units) : units[i].kind = "Script" /\ HasDefinition(units[i], expansion_ast)

InputInDependencyOrder ==
    /\ DependencyOrdered(units)
    /\ \A i, j \in 1..Len(modules_in) : Uses(modules_in[i], modules_in[j]) => j < i

\* C8: in an environment built from input in dependency order (compiled
\* units by the merge, compiled modules by the bytecode builder), every
\* module of the list that another module of the list uses stands before it.
C8_ModuleListTopological ==
    (MergeDone \/ BytecodeDone) /\ InputInDependencyOrder =>
        \A i, j \in 1..Len(env.module_data) :
            Uses(env.module_data[i].module, env.module_data[j].module) => j < i

C8_Witness ==
    /\ BytecodeDone
    /\ InputInDependencyOrder
    /\ Len(env.module_data) > 2
    /\ \E i, j \in 1..Len(env.module_data) :
          Uses(env.module_data[i].module, env.module_data[j].module)

C8_WitnessMerge ==
    /\ MergeDone
    /\ InputInDependencyOrder
    /\ Len(env.module_data) > 2
    /\ \E i, j \in 1..Len(env.module_data) :
          /\ env.module_data[i].from_script
          /\ Uses(env.module_data[i].module, env.module_data[j].module)

\* C9: the pseudo module of a merged script has exactly one function, the
\* script's function under the script's function name, no structs, no
\* friends, the script's constants, specification blocks and immediate
\* neighbors, and the anonymous address of the default-error bytes.
C9_ScriptPseudoModule ==
    MergeDone =>
        \A k \in 1..Len(merged) :
            merged[k].from_script =>
                LET sdef == expansion_ast.scripts[units[merged[k].unit].key[1]]
                    mdef == merged[k].expanded_module
                IN /\ DOMAIN mdef.functions = {sdef.function_name}
                   /\ mdef.functions[sdef.function_name] = sdef.function
                   /\ DOMAIN mdef.structs = {}
                   /\ DOMAIN mdef.friends = {}
                   /\ mdef.constants = sdef.constants
                   /\ mdef.specs = sdef.specs
                   /\ mdef.immediate_neighbors = sdef.immediate_neighbors
                   /\ merged[k].ident.module = sdef.function_name
                   /\ merged[k].ident.address.tag = "Anonymous"
                   /\ merged[k].ident.address.bytes = Some(DEFAULT_ERROR_BYTES)
                   /\ DOMAIN env.module_data[k].function_data = {sdef.function_name}
                   /\ DOMAIN env.module_data[k].struct_data = {}

C9_Witness ==
    /\ MergeDone
    /\ \E k \in 1..Len(merged) :
          /\ merged[k].from_script
          /\ merged[k].expanded_module.constants # <<>>
          /\ merged[k].expanded_module.specs # <<>>
          /\ DOMAIN merged[k].expanded_module.immediate_neighbors # {}
          /\ DOMAIN env.module_data[k].function_data = {merged[k].ident.module}

\* C10: after the merge the address of the pseudo module of a script
\* differs from the address of every real module of the model.
C10_ScriptAddressDistinct ==
    MergeDone =>
        \A k, l \in 1..Len(env.module_data) :
            (env.module_data[k].from_script /\ ~env.module_data[l].from_script)
                => env.module_data[k].name.addr # env.module_data[l].name.addr

\* C13: a unit without matching expanded definition is skipped and nothing
\* else: the merge returns an environment, no diagnostic is added, the unit
\* has no module entry (the entries are those of the merged tuples), and
\* every unit with a definition, before or after it, has its module entry.
C13_UnmatchedUnitSkipped ==
    MergeDone =>
        /\ result = "Ok"
        /\ env.diags = <<>>
        /\ Len(env.module_data) = Len(merged)
        /\ \A i \in 1..Len(units) :
              IF HasDefinition(units[i], expansion_ast)
              THEN \E k \in 1..Len(env.module_data) :
                      /\ merged[k].unit = i
                      /\ env.module_data[k].module = units[i].module
              ELSE \A k \in 1..Len(merged) : merged[k].unit # i

\* a script unit without definition between two units that are merged
C13_Witness ==
    /\ MergeDone
    /\ Len(units) > 2
    /\ units[2].kind = "Script"
    /\ ~HasDefinition(units[2], expansion_ast)
    /\ HasDefinition(units[1], expansion_ast)
    /\ HasDefinition(units[3], expansion_ast)
    /\ Len(env.module_data) = 2

\* C14: run_bytecode_model_builder on modules in dependency order returns
\* an environment with one stub module per input module, at the position of
\* the module and with that position as identity; every function and struct
\* definition index is mapped to an identity that has an entry for that
\* definition; no entry has a source location or a specification.
C14_StubModulePerInput ==
    (BytecodeDone /\ InputInDependencyOrder) =>
        /\ result = "Ok"
        /\ env.diags = <<>>
        /\ Len(env.module_data) = Len(modules_in)
        /\ \A i \in 1..Len(modules_in) :
              LET md == env.module_data[i]
                  m == modules_in[i]
              IN /\ md.module = m
                 /\ md.id = i - 1
                 /\ md.name = ModuleName_from(m.self_id[1].address, m.self_id[1].name)
                 /\ md.loc = None
                 /\ DOMAIN md.function_idx_to_id = {j - 1 : j \in 1..Len(m.function_defs)}
                 /\ DOMAIN md.struct_idx_to_id = {j - 1 : j \in 1..Len(m.struct_defs)}
                 /\ \A j \in DOMAIN md.function_idx_to_id :
                       /\ md.function_idx_to_id[j] \in DOMAIN md.function_data
                       /\ md.function_data[md.function_idx_to_id[j]].name
                             = m.function_defs[j + 1]
                       /\ md.function_data[md.function_idx_to_id[j]].def_idx = j
                 /\ \A j \in DOMAIN md.struct_idx_to_id :
                       /\ md.struct_idx_to_id[j] \in DOMAIN md.struct_data
                       /\ md.struct_data[md.struct_idx_to_id[j]].name = m.struct_defs[j + 1]
                       /\ md.struct_data[md.struct_idx_to_id[j]].def_idx = j
                 /\ \A f \in DOMAIN md.function_data :
                       md.function_data[f].loc = None /\ md.function_data[f].spec = None
                 /\ \A t \in DOMAIN md.struct_data :
                       md.struct_data[t].loc = None /\ md.struct_data[t].spec = None

\* modules in dependency order, one of them with several functions and
\* structs
C14_Witness ==
    /\ BytecodeDone
    /\ InputInDependencyOrder
    /\ Len(modules_in) > 1
    /\ \E i, j \in 1..Len(modules_in) : Uses(modules_in[i], modules_in[j])
    /\ \E i \in 1..Len(env.module_data) :
          /\ Cardinality(DOMAIN env.module_data[i].function_idx_to_id) > 2
          /\ Cardinality(DOMAIN env.module_data[i].struct_idx_to_id) > 1

\* C15: when the modules given to run_bytecode_model_builder are not in
\* dependency order, the call does not return a built environment.
C15_UnorderedInputIsFatal ==
    (BytecodeDone /\ ~InputInDependencyOrder) => result # "Ok"

\* C16: no stage of the builder panics on malformed output of the front
\* end (a dangling immediate-neighbor edge, an error without labels, a
\* comment for a file that is not in the file table): the call returns.
C16_NoStagePanics ==
    /\ result # "panic"
    /\ pc = "done" => result \in {"Ok", "Err"}

\* ------------------------------------------------------------------------
\* Properties of FunctionTarget

\* The index of the line of the instruction at the offset in a rendering.
CodeLineIdx(text, offset) ==
    CHOOSE i \in 1..Len(text) :
        /\ text[i][1] = Atom("    ")
        /\ Cardinality({j \in 1..i : text[j][1] = Atom("    ")}) = offset + 1

\* The outputs of the registered formatters at the offset, in the order of
\* registration, one after the other.
RECURSIVE OutputsInOrder(_, _, _)
OutputsInOrder(t, offset, i) ==
    IF i > Len(t.annotation_formatters) THEN <<>>
    ELSE LET out == apply_formatter(t.annotation_formatters[i], t, offset)
         IN (IF out = None THEN <<>> ELSE out[1]) \o OutputsInOrder(t, offset, i + 1)

C18_RegistrationAppendOnly ==
    [][LET old == target.annotation_formatters
           new == target'.annotation_formatters
           pold == peer.annotation_formatters
           pnew == peer'.annotation_formatters
       IN /\ (~target.created /\ target'.created) => (new = <<>> /\ pnew = <<>>)
          /\ target.created =>
                /\ target'.created
                /\ target'.data = target.data
                /\ target'.func_env = target.func_env
                /\ peer'.data = peer.data
                /\ peer'.func_env = peer.func_env
                /\ Len(new) >= Len(old)
                /\ SubSeq(new, 1, Len(old)) = old
                /\ IF obs'.call.op = "register_annotation_formatter"
                   THEN new = old \o <<obs'.call.arg>> /\ pnew = pold
                   ELSE IF obs'.call.op = "register_annotation_formatters_for_test"
                   THEN new = old \o <<"lifetime", "reaching_def">> /\ pnew = pold
                   ELSE IF obs'.call.op = "peer.register_annotation_formatter"
                   THEN new = old /\ pnew = pold \o <<obs'.call.arg>>
                   ELSE new = old /\ pnew = pold]_vars

\* two different formatters registered one after the other, after a
\* registration on the second target
C18_Witness ==
    /\ target.created
    /\ obs.call.op = "register_annotation_formatter"
    /\ peer.annotation_formatters # <<>>
    /\ peer.annotation_formatters # SubSeq(target.annotation_formatters, 1, 1)
    /\ Len(target.annotation_formatters) > 1
    /\ target.annotation_formatters[1] # target.annotation_formatters[2]
    /\ target.annotation_formatters[Len(target.annotation_formatters)] = obs.call.arg

\* C19: get_local_type(idx) and get_return_type(idx) return the stored type
\* when idx is below get_local_count() / get_return_count(), and panic for
\* every other idx.
C19_TypeIndexInRangeOrFatal ==
    /\ obs.call.op = "get_local_type" =>
          IF obs.call.arg < get_local_count(target)
          THEN obs.call.ret = Returned(target.data.local_types[obs.call.arg + 1])
          ELSE obs.call.ret.tag = "panic"
    /\ obs.call.op = "get_return_type" =>
          IF obs.call.arg < get_return_count(target)
          THEN obs.call.ret = Returned(target.data.return_types[obs.call.arg + 1])
          ELSE obs.call.ret.tag = "panic"

\* get_local_type with the index just past the last of several locals
C19_Witness ==
    /\ obs.call.op = "get_local_type"
    /\ get_local_count(target) > 1
    /\ obs.call.arg = get_local_count(target)
    /\ obs.call.ret.tag = "panic"

\* C20: a call of get_bytecode_loc(attr_id) returns the location the
\* location map holds for attr_id if there is one and the location of the
\* function otherwise, and leaves the target unchanged.
C20_BytecodeLocOrDeclared ==
    [][obs'.call.op = "get_bytecode_loc" =>
          /\ obs'.call.ret.tag = "Ok"
          /\ obs'.call.ret.value[1] =
                IF \E a \in DOMAIN target.data.locations : a = obs'.call.arg
                THEN target.data.locations[obs'.call.arg]
                ELSE target.func_env.loc
          /\ target' = target
          /\ peer' = peer]_vars

\* a call for an attribute without location, on a target whose location
\* map is not empty
C20_Witness ==
    /\ obs.call.op = "get_bytecode_loc"
    /\ DOMAIN target.data.locations # {}
    /\ obs.call.arg \notin DOMAIN target.data.locations
    /\ obs.call.ret = Returned(target.func_env.loc)

\* ------------------------------------------------------------------------
\* Further properties of the builder and of the merge

\* C21: in every step of the builder the diagnostics stored in the
\* environment stay where they are, and a step in which a stage fails adds
\* one diagnostic for each error the stage reported, in the order of the
\* errors.
C21_DiagnosticsOnlyGrow ==
    [][LET old == env.diags
           new == env'.diags
       IN /\ Len(new) >= Len(old)
          /\ SubSeq(new, 1, Len(old)) = old
          /\ (failed = "none" /\ failed' \notin {"none", "io"}) =>
                /\ Len(new) = Len(old) + Len(reported')
                /\ \A i \in 1..Len(reported') :
                      RendersError(env', new[Len(old) + i], reported'[i])]_vars

\* the expansion failed with several errors
C21_Witness ==
    /\ pc = "done"
    /\ failed = "expand"
    /\ Len(reported) > 1
    /\ Len(env.diags) = Len(reported)
    /\ env.diags[1] # env.diags[2]

\* The texts the registered formatters return at the offset that are not
\* empty, in the order of registration.
RECURSIVE NonEmptyOutputs(_, _, _)
NonEmptyOutputs(t, offset, i) ==
    IF i > Len(t.annotation_formatters) THEN <<>>
    ELSE LET out == apply_formatter(t.annotation_formatters[i], t, offset)
         IN (IF out = None \/ out = Some(<<>>) THEN <<>> ELSE <<out[1]>>)
            \o NonEmptyOutputs(t, offset, i + 1)

\* C22: in a rendering, the instruction at an offset is preceded by a
\* comment line if and only if some registered formatter returned a text
\* that is not empty for the offset, and the comment line is made of exactly
\* those texts, separated by ", ": a formatter that returns nothing or an
\* empty text adds no entry and no separator.
C22_CommentLineNonEmptyOutputs ==
    (obs.call.op = "fmt" /\ obs.call.ret.tag = "Ok") =>
        LET text == obs.call.ret.value[1]
        IN \A offset \in 0..(Len(target.data.code) - 1) :
              LET i == CodeLineIdx(text, offset)
                  outputs == NonEmptyOutputs(target, offset, 1)
              IN IF outputs = <<>>
                 THEN text[i - 1][1] # Atom("    // ")
                 ELSE text[i - 1] = <<Atom("    // ")>> \o Join(outputs, <<Atom(", ")>>)

\* C23: the filtered program given to the compiler is closed under
\* immediate-neighbor edges: the immediate neighbors of every retained module
\* and of every script (no script is removed) are retained, and the named
\* address of every retained module is retained.
C23_FilteredProgramClosed ==
    pc = "filtered" =>
        /\ DOMAIN expansion_ast.scripts = DOMAIN unfiltered.scripts
        /\ \A m \in DOMAIN expansion_ast.modules :
              /\ NeighborsOf(expansion_ast.modules[m]) \subseteq DOMAIN expansion_ast.modules
              /\ m.address.tag = "Named" =>
                    m.address.name[1] \in DOMAIN expansion_ast.addresses
        /\ \A k \in DOMAIN expansion_ast.scripts :
              NeighborsOf(expansion_ast.scripts[k]) \subseteq DOMAIN expansion_ast.modules

\* C24: after the merge of any unit sequence the k module entries have the
\* identities 0 to k - 1 in the order of the entries, also when units were
\* skipped: the identity of a module is its position among the merged
\* modules.
C24_ModuleIdsDense ==
    MergeDone =>
        /\ \A k \in 1..Len(env.module_data) : env.module_data[k].id = k - 1
        /\ {env.module_data[k].id : k \in 1..Len(env.module_data)}
              = 0..(Len(env.module_data) - 1)

\* the first unit is skipped and several units after it are merged
C24_Witness ==
    /\ MergeDone
    /\ Len(units) > 2
    /\ ~HasDefinition(units[1], expansion_ast)
    /\ Len(env.module_data) > 1
    /\ merged[1].unit = 2

====
